---------------------------- MODULE Spec2Model ----------------------------
(***************************************************************************)
(* A model of log4mongo/handlers.py: MongoFormatter.format and the         *)
(* AsyncMongoHandler (construction with _connect, set_mongo_job_id, emit,  *)
(* flush, close), together with the module-level _connection slot and the  *)
(* part of the database the handler writes to.                             *)
(*                                                                         *)
(* The driver (pymongo) is the environment: every driver call the code     *)
(* makes has an outcome drawn from the outcomes the code distinguishes.    *)
(* Python's None is "None" for names and ids that are strings, 0 for a     *)
(* connection object, <<>> for exc_info and for a traceback.               *)
(***************************************************************************)
EXTENDS Naturals, Sequences, FiniteSets, TLC

VARIABLES
    _connection,   \* the module-level slot: 0 (None) or a client id
    handlers,      \* the handler objects constructed so far, in order
    clients,       \* MongoClient objects created so far (ids 1..clients)
    closed,        \* the client ids on which close() has been called
    constructions, \* constructor calls so far, failed ones included
    db,            \* the target collection in the database
    clock,         \* readings of the wall clock taken so far
    written,       \* per correlation id, the update_one calls that succeeded
    lastOp,        \* the last operation: its driver calls and how it ended
    suspended,     \* the emit coroutines that yielded to the event loop
    fmt_record,    \* the record handed to format (formatter specification)
    fmt_result     \* what format did with it

vars == <<_connection, handlers, clients, closed, constructions, db, clock,
          written, lastOp, suspended, fmt_record, fmt_result>>

\* ------------------------------------------------------------- bounds
\* Constructor calls, clock readings (emits that reach format) and traceback
\* frames explored.
MaxHandlers == 1
MaxEmits == 2
MaxFrames == 2

None == "None"

\* The correlation ids set_mongo_job_id is called with; None is the initial one.
JobIds == {None, "A"}

\* ---------------------------------------------------------- formatter
\* The attribute names of a freshly built LogRecord (those format reads and
\* one it does not; the other baseline names behave like "lineno").
DEFAULT_PROPERTIES == {"name", "levelname", "msg", "exc_info", "lineno"}

\* traceback.extract_tb: the frame summaries of a traceback, outermost first;
\* a None traceback has none.
extract_tb(tb) == tb

\* The summary of the n-th frame of a traceback; every field tells the frames
\* apart.
Frame(n) ==
    [filename |-> <<"file", n>>, name |-> <<"fn", n>>, lineno |-> n,
     line |-> <<"src", n>>]

\* Tracebacks of 0..MaxFrames frames; frame i is at line i.
Traceback(n) == [i \in 1..n |-> Frame(i)]

\* Formatter.format_exception: the formatted trace, here one line per frame.
format_exception(exc_info) ==
    [i \in 1..Len(exc_info[3]) |-> exc_info[3][i].lineno]

\* Mutant: the sub-document is built from the first frame.
ExceptionDocumentFirst(exc_info, tblist) ==
    LET first_traceback_item == tblist[1]
    IN  [exc_message |-> exc_info[2],
         exc_fileName |-> first_traceback_item.filename,
         exc_method |-> first_traceback_item.name,
         exc_lineno |-> first_traceback_item.lineno,
         exc_line |-> first_traceback_item.line,
         exc_trace |-> format_exception(exc_info)]

\* The exception sub-document of lines 44-53, built from the last frame.
ExceptionDocument(exc_info, tblist) ==
    LET last_traceback_item == tblist[Len(tblist)]
    IN  [exc_message |-> exc_info[2],
         exc_fileName |-> last_traceback_item.filename,
         exc_method |-> last_traceback_item.name,
         exc_lineno |-> last_traceback_item.lineno,
         exc_line |-> last_traceback_item.line,
         exc_trace |-> format_exception(exc_info)]

\* Lines 55-60: the extra attributes copied into the document.
ContextualExtra(record) ==
    IF Cardinality(DEFAULT_PROPERTIES) # Cardinality(DOMAIN record)
    THEN (DOMAIN record) \ DEFAULT_PROPERTIES
    ELSE {}

\* tblist[-1] on an empty list raises IndexError.
LastFrameRaises(tblist) == Len(tblist) = 0

\* MongoFormatter.format(record) at wall-clock reading now: the exception it
\* raises ("None" when it returns) and the document it returns.
Format(record, now) ==
    LET read == {"levelname", "name", "msg", "exc_info"}
        standard == [level |-> record["levelname"],
                     loggerName |-> record["name"],
                     message |-> record["msg"],
                     timestamp |-> now]
        exc_info == record["exc_info"]
        tblist == extract_tb(exc_info[3])
        decorated ==
            IF exc_info # <<>>
            THEN ("exception" :> ExceptionDocument(exc_info, tblist)) @@ standard
            ELSE standard
        extra == ContextualExtra(record)
        document == [k \in extra |-> record[k]] @@ decorated
    IN  IF ~(read \subseteq DOMAIN record)
        THEN [raised |-> "AttributeError", document |-> <<>>]
        ELSE IF exc_info # <<>> /\ LastFrameRaises(tblist)
        THEN [raised |-> "IndexError", document |-> <<>>]
        ELSE [raised |-> None, document |-> document]

\* A LogRecord with the baseline attributes, the given exc_info and extras.
LogRecord(msg, exc_info, extra) ==
    extra @@ [name |-> "app", levelname |-> "INFO", msg |-> msg,
              exc_info |-> exc_info, lineno |-> 1]

ExcInfo(n) == <<"ValueError", "boom", Traceback(n)>>

\* The records the handler is given: one without exception info, and one with
\* exception info whose traceback has no frame.
EmitRecords ==
    {LogRecord("m", <<>>, <<>>),
     LogRecord("m", ExcInfo(0), <<>>)}

\* The records format is given on its own: with or without exception info,
\* tracebacks of 0..MaxFrames frames, extra attributes (one of them named
\* like a field of the document) and baseline attributes left out.
ExtraAttributes == {"job", "level"}
OptionalAttributes == {"lineno", "levelname"}

FormatRecords ==
    {[k \in (DEFAULT_PROPERTIES \ drop) \cup extra |->
          LogRecord("m", exc_info, [e \in extra |-> "x"])[k]] :
        exc_info \in {<<>>} \cup {ExcInfo(n) : n \in 0..MaxFrames},
        extra \in SUBSET ExtraAttributes,
        drop \in SUBSET OptionalAttributes}

\* ------------------------------------------------------------ database
collection_name == "logs"

\* Mutant: an insert of a new parent, whether or not one matches.
UpdateOneInsert(docs, id, entry) ==
    Append(docs, [mongo_job_id |-> id, records |-> <<entry>>])

\* update_one({'mongo_job_id': {'$eq': id}}, {'$push': {'records': entry}},
\* upsert=True): push onto the first parent with that id, or insert one.
UpdateOnePush(docs, id, entry) ==
    LET matches == {i \in 1..Len(docs) : docs[i].mongo_job_id = id}
    IN  IF matches = {}
        THEN Append(docs, [mongo_job_id |-> id, records |-> <<entry>>])
        ELSE LET first == CHOOSE i \in matches : \A j \in matches : i <= j
             IN  [docs EXCEPT ![first].records = Append(@, entry)]

\* ------------------------------------------------------------- handler
Call(name, result) == [name |-> name, result |-> result]

\* The constructor arguments the model distinguishes.
Args(reuse, fail_silently, credentials, capped) ==
    [reuse |-> reuse, fail_silently |-> fail_silently,
     credentials |-> credentials, capped |-> capped]

NoArgs == Args(FALSE, FALSE, FALSE, FALSE)

\* The record of an operation: which one, on which handler (0: none came out
\* of it), a constructor's arguments, the driver calls it made with their
\* results, the exception it let out, whether it called logging.exception,
\* and, for close(), whether the operation just before it was a close() of
\* the same handler that returned.
Op(op, h, args, calls, raised, logged) ==
    [op |-> op, h |-> h, args |-> args, calls |-> calls, raised |-> raised,
     logged |-> logged, again |-> FALSE]

\* Line 128: reuse the process-wide connection.
ReuseExisting(reuse, slot) == reuse /\ slot # 0

\* Mutant: the probe timeout is swallowed whatever fail_silently says.
ProbeFailureSwallowed(fail_silently) == FALSE

\* Lines 134-137: a probe timeout is re-raised unless fail_silently.
ProbeFailureRaises(fail_silently) == ~fail_silently

\* Line 138: the slot after a new connection passed its probe.
Publish(reuse, slot, connection) == connection

\* The handler after lines 85-101, before _connect: the fields that a later
\* operation reads.  username/password and capped are read by _connect alone
\* and are its arguments here; db is the connection's database.
NewHandler(reuse, fail_silently) ==
    [reuse |-> reuse, fail_silently |-> fail_silently,
     connection |-> 0, collection |-> None,
     authenticated |-> FALSE, mongo_job_id |-> None]

\* _connect, lines 125-158, as a function of the handler, the slot, the id a
\* new MongoClient would get, whether the collection exists, and the driver's
\* outcomes: probe in {"ok", "ServerSelectionTimeoutError"}, auth in
\* {"True", "False", "OperationFailure"}, create in {"ok",
\* "ConnectionFailure"} (creating a collection that exists is an
\* OperationFailure).  Returns the handler, the slot, the driver calls, the
\* Mutant: the except clause around the capped creation catches nothing.
CreateFailureNeverCaught(createResult) == FALSE

\* Line 154: the failure of the capped creation that is caught; the handler
\* then takes the collection of that name as it is (lines 155-156).
CreateFailureCaught(createResult) == createResult = "OperationFailure"

\* exception that propagates and whether the collection was created.
Connect(self, credentials, capped, slot, fresh, exists, probe, auth, create) ==
    LET reused == ReuseExisting(self.reuse, slot)
        connection == IF reused THEN slot ELSE fresh
        c1 == IF reused THEN <<>>
              ELSE <<Call("MongoClient", "ok"), Call("is_primary", probe)>>
        probeFailed == ~reused /\ probe # "ok"
        slot1 == IF reused THEN slot ELSE Publish(self.reuse, slot, connection)
        h1 == [self EXCEPT !.connection = connection]
        h2 == h1
        c2 == IF credentials
              THEN Append(c1, Call("authenticate", auth)) ELSE c1
        authRaised == credentials /\ auth = "OperationFailure"
        h3 == [h2 EXCEPT !.authenticated =
                   IF credentials THEN auth = "True" ELSE FALSE]
        createResult == IF exists THEN "OperationFailure" ELSE create
        c3 == IF capped
              THEN Append(c2, Call("create_collection", createResult)) ELSE c2
        createRaised == /\ capped
                        /\ createResult # "ok"
                        /\ ~CreateFailureCaught(createResult)
        h4 == [h3 EXCEPT !.collection = collection_name]
    IN  IF probeFailed
        THEN [handler |-> h1, slot |-> slot, calls |-> c1,
              raised |-> IF ProbeFailureRaises(self.fail_silently)
                         THEN probe ELSE None,
              created |-> FALSE]
        ELSE IF authRaised
        THEN [handler |-> h2, slot |-> slot1, calls |-> c2,
              raised |-> auth, created |-> FALSE]
        ELSE IF createRaised
        THEN [handler |-> h3, slot |-> slot1, calls |-> c3,
              raised |-> createResult, created |-> FALSE]
        ELSE [handler |-> h4, slot |-> slot1, calls |-> c3,
              raised |-> None,
              created |-> capped /\ createResult = "ok"]

\* Mutant: the write is awaited, so emit yields while it is in flight.
SuspendsAtWrite(call) == call = "update_one"

\* Whether emit yields to the event loop while a driver call is in flight.
\* update_one is a plain call of the synchronous driver (line 165, no await),
\* and flush, though awaited at line 174, has no await in its body (lines
\* 121-122): neither suspends the coroutine.
SuspendsAt(call) == FALSE

\* Mutant: emit does not look at the collection handle.
EmitUnguarded(self) == TRUE

\* Line 163: emit acts only on a handler with a collection.
EmitGuard(self) == self.collection # None

\* Mutant: every caught failure is logged.
DiagnosedAlways(fail_silently) == TRUE

\* Lines 176-177: whether a caught failure is handed to logging.exception.
Diagnosed(fail_silently) == ~fail_silently

\* Mutant: the flush is requested whatever the write did.
FlushFollowsAlways(write) == TRUE

\* Lines 165-174: the flush is the statement after update_one in the try
\* block, reached only when update_one returned.
FlushFollows(write) == write = "ok"

\* Mutant: the except clause re-raises.
EmitReraises(raised) == raised

\* Lines 175-177: what leaves emit when its body raised.
EmitPropagates(raised) == None

\* emit, lines 161-177, with the driver's outcomes for update_one and fsync
\* in {"ok", "PyMongoError"}.  The argument of update_one is evaluated first,
\* so format runs before the write.  Returns the documents of the collection,
\* the calls made, the exception that propagates and whether it was logged.
EmitBody(self, docs, record, now, write, flush) ==
    LET f == Format(record, now)
        fc == <<Call("format", f.raised)>>
        wc == Append(fc, Call("update_one", write))
        lc == Append(wc, Call("fsync", flush))
        pushed == UpdateOnePush(docs, self.mongo_job_id, f.document)
        after == IF write = "ok" THEN pushed ELSE docs
        caught(e) == [raised |-> EmitPropagates(e),
                      logged |-> Diagnosed(self.fail_silently)]
    IN  IF ~EmitGuard(self)
        THEN [docs |-> docs, calls |-> <<>>, raised |-> None,
              logged |-> FALSE, read_clock |-> FALSE]
        ELSE IF f.raised # None
        THEN [docs |-> docs, calls |-> fc, read_clock |-> TRUE] @@ caught(f.raised)
        ELSE IF ~FlushFollows(write)
        THEN [docs |-> docs, calls |-> wc, read_clock |-> TRUE] @@ caught(write)
        ELSE IF flush # "ok"
        THEN [docs |-> after, calls |-> lc, read_clock |-> TRUE] @@ caught(flush)
        ELSE [docs |-> after, calls |-> lc, raised |-> None,
              logged |-> FALSE, read_clock |-> TRUE]

\* Mutant: close logs out whenever it is called.
LogoutAlways(self) == TRUE

\* Line 184: close logs out only if authenticate returned a true value.
LogoutAttempted(self) == self.authenticated

\* close, lines 180-187, with the driver's outcomes for logout and close in
\* {"ok", "PyMongoError"}: the calls made and the exception that propagates.
CloseBody(self, logout, disconnect) ==
    LET c1 == IF LogoutAttempted(self)
              THEN <<Call("logout", logout)>> ELSE <<>>
        logoutRaised == LogoutAttempted(self) /\ logout # "ok"
        c2 == IF self.connection # 0
              THEN Append(c1, Call("close", disconnect)) ELSE c1
    IN  IF logoutRaised
        THEN [calls |-> c1, raised |-> logout]
        ELSE IF self.connection # 0 /\ disconnect # "ok"
        THEN [calls |-> c2, raised |-> disconnect]
        ELSE [calls |-> c2, raised |-> None]

\* ------------------------------------------------------------- actions
Init ==
    /\ _connection = 0
    /\ handlers = <<>>
    /\ clients = 0
    /\ closed = {}
    /\ constructions = 0
    /\ db \in {[exists |-> e, docs |-> <<>>] : e \in BOOLEAN}
    /\ clock = 0
    /\ written = [id \in JobIds |-> 0]
    /\ lastOp = Op("init", 0, NoArgs, <<>>, None, FALSE)
    /\ suspended = <<>>
    /\ fmt_record = <<>>
    /\ fmt_result = [raised |-> "pending", document |-> <<>>]

\* AsyncMongoHandler(URI, ...): __init__ and the _connect it ends with.  An
\* exception out of _connect leaves no handler, but what _connect did before
\* it (a client created, the slot written) stays.
Construct(reuse, fail_silently, credentials, capped, probe, auth, create) ==
    /\ LET self == NewHandler(reuse, fail_silently)
           r == Connect(self, credentials, capped, _connection, clients + 1,
                        db.exists, probe, auth, create)
           produced == r.raised = None
       IN  /\ _connection' = r.slot
           /\ clients' = IF \E i \in 1..Len(r.calls) :
                                r.calls[i].name = "MongoClient"
                         THEN clients + 1 ELSE clients
           /\ handlers' = IF produced THEN Append(handlers, r.handler)
                          ELSE handlers
           /\ db' = IF r.created THEN [db EXCEPT !.exists = TRUE] ELSE db
           /\ lastOp' = Op("construct",
                           IF produced THEN Len(handlers) + 1 ELSE 0,
                           Args(reuse, fail_silently, credentials, capped),
                           r.calls, r.raised, FALSE)
    /\ constructions' = constructions + 1
    /\ UNCHANGED <<closed, clock, written, suspended, fmt_record, fmt_result>>

\* handler.set_mongo_job_id(id)
SetMongoJobId(h, id) ==
    /\ handlers' = [handlers EXCEPT ![h].mongo_job_id = id]
    /\ lastOp' = Op("set_mongo_job_id", h, NoArgs, <<>>, None, FALSE)
    /\ UNCHANGED <<_connection, clients, closed, constructions, db, clock,
                   written, suspended, fmt_record, fmt_result>>

\* One run of an emit coroutine on the event loop, from where it stands to
\* its next suspension point or its end.  task = 0 starts
\* "await handler.emit(record)" on handler h; task > 0 resumes the coroutine
\* suspended[task] when the call it waits for completes.  The correlation id
\* is read when the filter of update_one is built (line 166), at the start.
Emit(task, h, record, write, flush) ==
    /\ LET from == IF task = 0 THEN "start" ELSE suspended[task].at
           self == IF task = 0 THEN handlers[h] ELSE suspended[task].self
           now == IF task = 0 THEN clock + 1 ELSE suspended[task].now
           r == EmitBody(self, db.docs, record, now,
                         IF from = "fsync" THEN "ok" ELSE write, flush)
           issues(name) == \E i \in 1..Len(r.calls) : r.calls[i].name = name
           stops == IF from = "start" /\ issues("update_one")
                                      /\ SuspendsAt("update_one")
                    THEN "update_one"
                    ELSE IF from # "fsync" /\ issues("fsync")
                                           /\ SuspendsAt("fsync")
                    THEN "fsync"
                    ELSE "done"
           writes == from # "fsync" /\ stops # "update_one"
           coroutine == [h |-> h, self |-> self, record |-> record,
                         now |-> now, at |-> stops]
       IN  /\ db' = IF writes /\ r.docs # db.docs
                    THEN [db EXCEPT !.exists = TRUE, !.docs = r.docs] ELSE db
           /\ clock' = IF from = "start" /\ r.read_clock
                       THEN clock + 1 ELSE clock
           /\ written' =
                  IF /\ writes
                     /\ \E i \in 1..Len(r.calls) :
                            r.calls[i] = Call("update_one", "ok")
                  THEN [written EXCEPT ![self.mongo_job_id] = @ + 1]
                  ELSE written
           /\ suspended' =
                  IF from = "start"
                  THEN IF stops = "done" THEN suspended
                       ELSE Append(suspended, coroutine)
                  ELSE IF stops = "done"
                  THEN [i \in 1..(Len(suspended) - 1) |->
                            IF i < task THEN suspended[i]
                            ELSE suspended[i + 1]]
                  ELSE [suspended EXCEPT ![task] = coroutine]
           /\ lastOp' =
                  IF stops = "update_one"
                  THEN Op("emit", h, NoArgs,
                          <<r.calls[1], Call("update_one", "pending")>>,
                          None, FALSE)
                  ELSE IF stops = "fsync"
                  THEN Op("emit", h, NoArgs,
                          <<r.calls[1], r.calls[2], Call("fsync", "pending")>>,
                          None, FALSE)
                  ELSE Op("emit", h, NoArgs, r.calls, r.raised, r.logged)
    /\ UNCHANGED <<_connection, handlers, clients, closed, constructions,
                   fmt_record, fmt_result>>

\* await handler.close()
Close(h, logout, disconnect) ==
    /\ LET self == handlers[h]
           r == CloseBody(self, logout, disconnect)
           disconnected == \E i \in 1..Len(r.calls) :
                              r.calls[i] = Call("close", "ok")
       IN  /\ closed' = IF disconnected
                        THEN closed \cup {self.connection} ELSE closed
           /\ lastOp' = [Op("close", h, NoArgs, r.calls, r.raised, FALSE)
                            EXCEPT !.again = /\ lastOp.op = "close"
                                             /\ lastOp.h = h
                                             /\ lastOp.raised = None]
    /\ UNCHANGED <<_connection, handlers, clients, constructions, db, clock,
                   written, suspended, fmt_record, fmt_result>>

ProbeOutcomes == {"ok", "ServerSelectionTimeoutError"}
AuthOutcomes == {"True", "False", "OperationFailure"}
CreateOutcomes == {"ok", "ConnectionFailure"}
DriverOutcomes == {"ok", "PyMongoError"}

\* One constructor call; an outcome is drawn only for a driver call that the
\* arguments and the state can lead to.
ConstructAny ==
    \E reuse, fail_silently, credentials, capped \in BOOLEAN :
    \E probe \in IF ReuseExisting(reuse, _connection)
                 THEN {"ok"} ELSE ProbeOutcomes :
    \E auth \in IF credentials /\ probe = "ok"
                THEN AuthOutcomes ELSE {"True"} :
    \E create \in IF capped /\ ~db.exists /\ probe = "ok"
                     /\ auth # "OperationFailure"
                  THEN CreateOutcomes ELSE {"ok"} :
        Construct(reuse, fail_silently, credentials, capped,
                  probe, auth, create)

SetMongoJobIdAny ==
    \E h \in 1..Len(handlers), id \in JobIds : SetMongoJobId(h, id)

EmitAny ==
    \E task \in 0..Len(suspended) :
    \E h \in IF task = 0 THEN 1..Len(handlers) ELSE {suspended[task].h} :
    \E record \in IF task = 0 THEN EmitRecords ELSE {suspended[task].record} :
    \E write \in IF EmitGuard(handlers[h]) THEN DriverOutcomes ELSE {"ok"} :
    \E flush \in IF write = "ok" THEN DriverOutcomes ELSE {"ok"} :
        /\ task = 0 => clock < MaxEmits
        /\ Emit(task, h, record, write, flush)

CloseAny ==
    \E h \in 1..Len(handlers) :
    \E logout \in IF handlers[h].authenticated
                  THEN DriverOutcomes ELSE {"ok"} :
    \E disconnect \in IF logout = "ok" THEN DriverOutcomes ELSE {"ok"} :
        Close(h, logout, disconnect)

\* A process that makes at most MaxHandlers constructor calls and emits, while
\* the clock is below MaxEmits, on the handlers it has.
Next ==
    \/ constructions < MaxHandlers /\ ConstructAny
    \/ SetMongoJobIdAny
    \/ EmitAny
    \/ CloseAny

Spec == Init /\ [][Next]_vars

\* A process that only constructs and closes handlers, with two more
\* constructor calls than Spec: the life of the connections.  Its behaviours
\* are behaviours of the program (one that logs nothing).
NextConnections ==
    \/ constructions < MaxHandlers + 2 /\ ConstructAny
    \/ CloseAny

SpecConnections == Init /\ [][NextConnections]_vars

\* MongoFormatter.format on its own, applied once to each record.
InitFormat ==
    /\ _connection = 0
    /\ handlers = <<>>
    /\ clients = 0
    /\ closed = {}
    /\ constructions = 0
    /\ db = [exists |-> FALSE, docs |-> <<>>]
    /\ clock = 0
    /\ written = [id \in JobIds |-> 0]
    /\ lastOp = Op("init", 0, NoArgs, <<>>, None, FALSE)
    /\ suspended = <<>>
    /\ fmt_record \in FormatRecords
    /\ fmt_result = [raised |-> "pending", document |-> <<>>]

FormatCall ==
    /\ fmt_result.raised = "pending"
    /\ fmt_result' = Format(fmt_record, clock + 1)
    /\ clock' = clock + 1
    /\ lastOp' = Op("format", 0, NoArgs, <<>>, fmt_result'.raised, FALSE)
    /\ UNCHANGED <<_connection, handlers, clients, closed, constructions, db,
                   written, suspended, fmt_record>>

NextFormat == FormatCall

SpecFormat == InitFormat /\ [][NextFormat]_vars

\* ------------------------------------------------------------- claims
Issued(op, name) == \E i \in 1..Len(op.calls) : op.calls[i].name = name

\* Some driver call (or format) of the operation ended in an exception.
CallFailed(op) ==
    \E i \in 1..Len(op.calls) :
        op.calls[i].result \notin {"ok", None, "True", "False"}

ProbeFailed(op) ==
    \E i \in 1..Len(op.calls) :
        op.calls[i] = Call("is_primary", "ServerSelectionTimeoutError")

Disabled(self) == self.collection = None

\* C1: emit never lets an exception out, whatever the handler's state and
\* fail_silently, and whichever of format, update_one and fsync failed.
C1_EmitNeverRaises == lastOp.op = "emit" => lastOp.raised = None

\* C1 witness: an emit in which format, the write or the flush failed.
C1_Witness == lastOp.op = "emit" /\ CallFailed(lastOp)

\* C2: a constructor call that opened a new client whose probe timed out, with
\* fail_silently off, lets the probe's exception out and adds no handler.
C2_FatalProbe ==
    [][(lastOp'.op = "construct" /\ constructions' # constructions
        /\ ProbeFailed(lastOp') /\ ~lastOp'.args.fail_silently)
       => (lastOp'.raised = "ServerSelectionTimeoutError"
           /\ lastOp'.h = 0 /\ handlers' = handlers)]_vars

\* C2 witness: a constructor call ended by the probe's exception.
C2_Witness ==
    /\ lastOp.op = "construct"
    /\ ProbeFailed(lastOp)
    /\ lastOp.raised = "ServerSelectionTimeoutError"
    /\ handlers = <<>>

\* C3: a handler that came out of a constructor call whose probe timed out
\* (fail_silently on) has no collection; a handler without a collection never
\* gets one, and no operation on it calls update_one or fsync or changes the
\* database.
C3_DisabledForGood ==
    [][/\ (lastOp'.op = "construct" /\ constructions' # constructions
           /\ ProbeFailed(lastOp') /\ lastOp'.h # 0)
          => Disabled(handlers'[lastOp'.h])
       /\ \A h \in 1..Len(handlers) :
             Disabled(handlers[h]) => Disabled(handlers'[h])
       /\ (lastOp' # lastOp /\ lastOp'.h \in 1..Len(handlers)
           /\ Disabled(handlers[lastOp'.h]))
          => (~Issued(lastOp', "update_one") /\ ~Issued(lastOp', "fsync")
              /\ db' = db /\ written' = written)]_vars

\* C3 witness: an emit on a handler that has no collection.
C3_Witness ==
    /\ lastOp.op = "emit"
    /\ Disabled(handlers[lastOp.h])
    /\ handlers[lastOp.h].fail_silently

\* C4 (as claimed, and only for handlers that are ready, for which it is
\* claimed a fortiori): any two handlers constructed with reuse=True hold the
\* same connection object.
C4_ReuseShares ==
    \A i, j \in 1..Len(handlers) :
        (/\ handlers[i].reuse /\ ~Disabled(handlers[i])
         /\ handlers[j].reuse /\ ~Disabled(handlers[j]))
            => handlers[i].connection = handlers[j].connection

\* C5 (as claimed): the slot is written only by a constructor call that
\* opened a new client whose probe succeeded, with reuse on.
C5_SlotWrittenOnlyOnReuse ==
    [][_connection' # _connection
       => (/\ lastOp'.op = "construct"
           /\ Issued(lastOp', "MongoClient")
           /\ ~ProbeFailed(lastOp')
           /\ lastOp'.args.reuse)]_vars

\* C6 (as claimed): the only exception any operation lets out is the probe's,
\* from a constructor call with fail_silently off.
C6_OnlyProbeFailurePropagates ==
    lastOp.raised # None
        => (/\ lastOp.op = "construct"
            /\ ProbeFailed(lastOp)
            /\ ~lastOp.args.fail_silently
            /\ lastOp.raised = "ServerSelectionTimeoutError")

Parents(id) == {i \in 1..Len(db.docs) : db.docs[i].mongo_job_id = id}

\* C7: for every correlation id, after N update_one calls with that id have
\* succeeded (on whichever handlers, in whichever order, with writes for other
\* ids in between) the collection holds exactly one parent with that id and
\* its array has N entries; with N = 0 it holds none.
C7_OneParentNEntries ==
    \A id \in JobIds :
        IF written[id] = 0
        THEN Parents(id) = {}
        ELSE /\ Cardinality(Parents(id)) = 1
             /\ \A i \in Parents(id) : Len(db.docs[i].records) = written[id]

\* C7 witness: two writes with the same id have succeeded.
C7_Witness ==
    \E id \in JobIds : written[id] >= 2 /\ Cardinality(Parents(id)) = 1

\* C8 (as claimed): a close() right after a close() of the same handler that
\* returned makes no driver call, raises nothing and changes no state.
C8_SecondCloseNoOp ==
    [][(lastOp'.op = "close" /\ lastOp'.again)
       => (/\ lastOp'.calls = <<>>
           /\ lastOp'.raised = None
           /\ UNCHANGED <<_connection, handlers, clients, closed, db>>)]_vars

\* C9 (as claimed): every failure caught in emit is handed to
\* logging.exception, with fail_silently on as with it off.
C9_EveryFailureLogged ==
    (lastOp.op = "emit" /\ CallFailed(lastOp)) => lastOp.logged

\* C9 (amended): emit calls logging.exception exactly when a failure was
\* caught and the handler's fail_silently is off; with fail_silently on the
\* failure is swallowed without a record.
C9_LoggedUnlessSilent ==
    lastOp.op = "emit"
        => (lastOp.logged <=>
                (CallFailed(lastOp) /\ ~handlers[lastOp.h].fail_silently))

\* C9 witness: a failure caught in emit and logged.
C9_Witness ==
    /\ lastOp.op = "emit"
    /\ CallFailed(lastOp)
    /\ ~handlers[lastOp.h].fail_silently
    /\ lastOp.logged

\* C10 (as claimed): format, given a record with every baseline attribute and
\* exception info whose traceback has no frame, returns a document whose
\* exception sub-document holds the exception message.
C10_ZeroFrames ==
    (/\ fmt_result.raised # "pending"
     /\ DEFAULT_PROPERTIES \subseteq DOMAIN fmt_record
     /\ fmt_record["exc_info"] # <<>>
     /\ Len(extract_tb(fmt_record["exc_info"][3])) = 0)
        => (/\ fmt_result.raised = None
            /\ "exception" \in DOMAIN fmt_result.document
            /\ fmt_result.document["exception"].exc_message
                   = fmt_record["exc_info"][2])

\* C11 (as claimed): whenever format returns a document, every attribute of
\* the record whose name is not a baseline name is a top-level field of the
\* document, with the record's value.
C11_ExtrasCopied ==
    fmt_result.raised = None
        => \A k \in (DOMAIN fmt_record) \ DEFAULT_PROPERTIES :
              /\ k \in DOMAIN fmt_result.document
              /\ fmt_result.document[k] = fmt_record[k]

\* C12: whenever format returns a document, the document has an exception
\* sub-document exactly when the record's exc_info is not None, and when the
\* traceback has at least one frame its file name, method, line number and
\* source line are those of the last frame.
C12_ExceptionFromLastFrame ==
    fmt_result.raised = None
        => LET exc_info == fmt_record["exc_info"]
               document == fmt_result.document
               tb == extract_tb(exc_info[3])
               last == tb[Len(tb)]
           IN  /\ ("exception" \in DOMAIN document) <=> (exc_info # <<>>)
               /\ (exc_info # <<>> /\ Len(tb) >= 1)
                     => /\ document["exception"].exc_fileName = last.filename
                        /\ document["exception"].exc_method = last.name
                        /\ document["exception"].exc_lineno = last.lineno
                        /\ document["exception"].exc_line = last.line

\* C12 witness: format returned a document for a record whose traceback has
\* more than one frame; its line number is the last frame's.
C12_Witness ==
    /\ fmt_result.raised = None
    /\ fmt_record["exc_info"] # <<>>
    /\ Len(fmt_record["exc_info"][3]) >= 2
    /\ fmt_result.document["exception"].exc_lineno
           = Len(fmt_record["exc_info"][3])

\* C13: a construction in capped mode whose creation of the bounded
\* collection fails because the collection already exists raises nothing and
\* yields a ready handler whose handle is the existing collection of that
\* name.
C13_ExistingCollectionAdopted ==
    (/\ lastOp.op = "construct"
     /\ lastOp.args.capped
     /\ \E i \in 1..Len(lastOp.calls) :
            lastOp.calls[i] = Call("create_collection", "OperationFailure"))
        => /\ lastOp.raised = None
           /\ lastOp.h # 0
           /\ ~Disabled(handlers[lastOp.h])
           /\ handlers[lastOp.h].collection = collection_name
           /\ db.exists

\* C13 witness: a capped construction met an existing collection and the
\* handler holds it.
C13_Witness ==
    /\ lastOp.op = "construct"
    /\ lastOp.args.capped
    /\ \E i \in 1..Len(lastOp.calls) :
           lastOp.calls[i] = Call("create_collection", "OperationFailure")
    /\ lastOp.h # 0
    /\ handlers[lastOp.h].collection = collection_name

\* C14 (as claimed): after close() has returned on a ready handler, an emit
\* on that handler issues no write and no flush.
C14_ClosedForGood ==
    [][(/\ lastOp.op = "close"
        /\ lastOp.raised = None
        /\ ~Disabled(handlers[lastOp.h])
        /\ lastOp'.op = "emit"
        /\ lastOp'.h = lastOp.h)
          => (/\ ~Issued(lastOp', "update_one")
              /\ ~Issued(lastOp', "fsync"))]_vars

\* C15 (as claimed): whatever the sequence of constructions, the process-wide
\* slot is written at most once: once it holds a connection it keeps it.
C15_SlotWrittenOnce ==
    [][_connection # 0 => _connection' = _connection]_vars

\* C16 (as claimed): the write of an emit is a suspension point: the run in
\* which an emit starts and issues update_one ends with that emit suspended
\* at the write, so that other tasks of the loop step before it completes.
C16_WriteIsSuspendPoint ==
    [][(/\ lastOp'.op = "emit"
        /\ clock' # clock
        /\ Issued(lastOp', "update_one"))
          => \E t \in 1..Len(suspended') :
                 /\ suspended'[t].h = lastOp'.h
                 /\ suspended'[t].at = "update_one"]_vars

\* The timestamps of the entries of one parent, in array order, increase.
InStartOrder(records) ==
    \A j, k \in 1..Len(records) :
        j < k => records[j].timestamp < records[k].timestamp

\* C20: an emit runs from its start through write and flush in one run of the
\* loop (no emit is ever suspended), the entries of every parent are in the
\* order in which their emits started (the order of their clock readings), and
\* the entry an emit pushes is the last entry of the parent whose id is the
\* handler's correlation id when that emit runs.
C20_EmitsDoNotInterleave ==
    [][/\ suspended' = <<>>
       /\ \A p \in 1..Len(db'.docs) : InStartOrder(db'.docs[p].records)
       /\ (lastOp'.op = "emit" /\ db' # db)
             => LET id == handlers[lastOp'.h].mongo_job_id
                    p == CHOOSE i \in 1..Len(db'.docs) :
                             db'.docs[i].mongo_job_id = id
                    records == db'.docs[p].records
                IN  /\ \E i \in 1..Len(db'.docs) : db'.docs[i].mongo_job_id = id
                    /\ records[Len(records)].timestamp = clock'
                    /\ clock' = clock + 1]_vars

\* C20 witness: two emits pushed their entries to the same parent.
C20_Witness ==
    /\ lastOp.op = "emit"
    /\ suspended = <<>>
    /\ \E p \in 1..Len(db.docs) :
           /\ Len(db.docs[p].records) = 2
           /\ db.docs[p].records[1].timestamp = 1
           /\ db.docs[p].records[2].timestamp = 2

\* C17: in every emit, fsync is requested only right after that emit's
\* update_one returned (and so after format returned); a failed fsync, like a
\* failed update_one, is caught: nothing propagates, and it is logged exactly
\* when fail_silently is off.
C17_FlushOnlyAfterWrite ==
    lastOp.op = "emit"
        => /\ \A i \in 1..Len(lastOp.calls) :
                  lastOp.calls[i].name = "fsync"
                      => /\ i = 3
                         /\ lastOp.calls[1] = Call("format", None)
                         /\ lastOp.calls[2] = Call("update_one", "ok")
           /\ \A i \in 1..Len(lastOp.calls) :
                  (/\ lastOp.calls[i].name \in {"update_one", "fsync"}
                   /\ lastOp.calls[i].result # "ok")
                      => /\ lastOp.raised = None
                         /\ lastOp.logged = ~handlers[lastOp.h].fail_silently

\* C17 witness: an emit whose write succeeded and whose flush failed.
C17_Witness ==
    /\ lastOp.op = "emit"
    /\ Len(lastOp.calls) = 3
    /\ lastOp.calls[2] = Call("update_one", "ok")
    /\ lastOp.calls[3] = Call("fsync", "PyMongoError")
    /\ lastOp.raised = None

\* C18: a handler is authenticated exactly when its construction had
\* credentials and authenticate returned true, it stays as constructed, and
\* close issues logout only on an authenticated handler.
C18_LogoutOnlyIfAuthenticated ==
    [][/\ (lastOp'.op = "construct" /\ Len(handlers') # Len(handlers))
             => (handlers'[lastOp'.h].authenticated
                   <=> /\ lastOp'.args.credentials
                       /\ \E i \in 1..Len(lastOp'.calls) :
                              lastOp'.calls[i] = Call("authenticate", "True")
                       /\ ~ProbeFailed(lastOp'))
       /\ \A h \in 1..Len(handlers) :
              handlers'[h].authenticated = handlers[h].authenticated
       /\ (lastOp'.op = "close" /\ Issued(lastOp', "logout"))
             => handlers'[lastOp'.h].authenticated]_vars

\* C18 witness: close logged out an authenticated handler.
C18_Witness ==
    /\ lastOp.op = "close"
    /\ Issued(lastOp, "logout")
    /\ handlers[lastOp.h].authenticated

\* C19 (as claimed): a close() that closes a connection leaves no other ready
\* handler on that connection, and a construction never yields a ready
\* handler on a connection that has been closed.
C19_NoReadyHandlerOnClosedConnection ==
    [][/\ \A c \in closed' \ closed :
              \A j \in 1..Len(handlers) :
                  (j # lastOp'.h /\ ~Disabled(handlers[j]))
                      => handlers[j].connection # c
       /\ (/\ lastOp'.op = "construct"
           /\ Len(handlers') # Len(handlers)
           /\ ~Disabled(handlers'[lastOp'.h]))
             => handlers'[lastOp'.h].connection \notin closed']_vars

=============================================================================
